---- MODULE Spec2Model ----
(***************************************************************************)
(* Model of main.py: configure_api, get_gemini_model, ask_gemini,          *)
(* execute_command and the __main__ driver.                                *)
(*                                                                         *)
(* The file is either executed directly (mode "main": the driver block     *)
(* under `if __name__ == "__main__"` runs) or imported as a module (mode   *)
(* "module": another script calls ask_gemini and execute_command with      *)
(* inputs of its own, one call at a time).                                 *)
(*                                                                         *)
(* calls is the log of the calls made so far, one record per call; only    *)
(* the last record can be in progress, since the program is synchronous.   *)
(***************************************************************************)
EXTENDS Integers, Sequences, FiniteSets, TLC

VARIABLES mode, pc, apiKey, configured, model, calls, response_text,
          command_output, exitCode

vars == <<mode, pc, apiKey, configured, model, calls, response_text,
          command_output, exitCode>>

(* ---------------------------- bounds ----------------------------------- *)

\* calls another script makes after importing the module
MaxCalls == 2
\* largest exit status an ordinary (located) program returns in the model
MaxExit == 2

(* ------------------------- Python values ------------------------------- *)

PyNone == [tag |-> "None", val |-> ""]
PyStr(s) == [tag |-> "str", val |-> s]
\* no value bound yet (a call that has not returned)
Unset == [tag |-> "unset", val |-> ""]

\* Python truthiness of `not x` for None and str
Falsy_OnlyNone(x) == x.tag = "None"
Falsy(x) == x.tag = "None" \/ (x.tag = "str" /\ x.val = "")

(* ------------------------- program literals ---------------------------- *)

test_query == "Who won the FIFA World Cup in 2022?"
test_command == "ls -l"
NoQueryMsg == "Error: No query provided."
FallbackMsg == "Sorry, I couldn't get a response from the API."
NoOutputMsg == "Command executed successfully (no output)."
NotFoundMsg(command) ==
    "Error: The command '" \o command \o "' was not found on your system."

(* --------------------------- input sets -------------------------------- *)

Queries == {PyNone, PyStr(""), PyStr("hi"), PyStr(test_query)}
Commands == {test_command, "nosuchprog"}
Texts == {"", " Argentina won the 2022 FIFA World Cup. \n", FallbackMsg}
Outputs == {"", "a\nb\n"}
ApiKeys == {PyNone, PyStr(""), PyStr("k")}

(* ----------------------- the completion client ------------------------- *)

\* model.generate_content(query) either raises or returns a response whose
\* .text accessor yields a string or raises
ClientOutcomes ==
    {[kind |-> "raised", textOk |-> FALSE, text |-> ""]}
    \cup {[kind |-> "response", textOk |-> FALSE, text |-> ""]}
    \cup {[kind |-> "response", textOk |-> TRUE, text |-> t] : t \in Texts}

NoOutcome == [kind |-> "none"]

(* ------------------------ the host and its shell ----------------------- *)

\* shell: the command interpreter can be started;
\* found: the interpreter can locate the program the command names
Hosts == [shell : BOOLEAN, found : BOOLEAN]

ShellNotFoundText(command) == "/bin/sh: 1: " \o command \o ": not found\n"

Completed(rc, out, err) ==
    [kind |-> "completed", rc |-> rc, stdout |-> out, stderr |-> err]

\* subprocess.run(command, shell=True, capture_output=True, text=True):
\* what the call can produce before check=True is applied
subprocess_run(command, host) ==
    {[kind |-> "OtherError", rc |-> -1, stdout |-> "", stderr |-> ""]}
    \cup (IF ~host.shell
          THEN {[kind |-> "FileNotFoundError", rc |-> -1,
                 stdout |-> "", stderr |-> ""]}
          ELSE IF ~host.found
          THEN {Completed(127, "", ShellNotFoundText(command))}
          ELSE {Completed(rc, out, err) :
                    rc \in 0..MaxExit, out \in Outputs, err \in Outputs})

(* ------------------------------ ask_gemini ----------------------------- *)

\* lines 55-61: the guard on the query, then the client call is entered
ask_gemini_enter(query) ==
    IF Falsy(query)
    THEN [fn |-> "ask_gemini", arg |-> query, host |-> NoOutcome,
          state |-> "Returned", result |-> PyStr(NoQueryMsg),
          ext |-> NoOutcome, gen |-> 0]
    ELSE [fn |-> "ask_gemini", arg |-> query, host |-> NoOutcome,
          state |-> "Calling", result |-> Unset,
          ext |-> NoOutcome, gen |-> 1]

\* lines 64-67: the handler of `except Exception`
ask_gemini_except_Propagate(c) == [c EXCEPT !.state = "Raised"]
ask_gemini_except(c) ==
    [c EXCEPT !.state = "Returned", !.result = PyStr(FallbackMsg)]

\* line 63: return response.text (inside the try)
ask_gemini_text_FallbackOnEmpty(c) ==
    IF c.ext.textOk /\ c.ext.text # ""
    THEN [c EXCEPT !.state = "Returned", !.result = PyStr(c.ext.text)]
    ELSE ask_gemini_except(c)
ask_gemini_text(c) ==
    IF c.ext.textOk
    THEN [c EXCEPT !.state = "Returned", !.result = PyStr(c.ext.text)]
    ELSE ask_gemini_except(c)

(* ---------------------------- execute_command -------------------------- *)

\* line 79-86: the child process is started
execute_command_enter(command, host) ==
    [fn |-> "execute_command", arg |-> PyStr(command), host |-> host,
     state |-> "Running", result |-> Unset, ext |-> NoOutcome, gen |-> 0]

\* lines 95-98
execute_command_success_Merged(r) ==
    IF r.stdout \o r.stderr # "" THEN r.stdout \o r.stderr ELSE NoOutputMsg
execute_command_success(r) ==
    IF r.stdout # "" THEN r.stdout ELSE NoOutputMsg

\* lines 100-104
CalledProcessError_OrSentinel(r) ==
    IF r.stderr # "" THEN r.stderr ELSE NoOutputMsg
CalledProcessError_handler(r) == r.stderr

\* lines 86-108: the outcome of subprocess.run decides the call's end
execute_command_finish(c, r) ==
    IF r.kind = "completed" /\ r.rc = 0
    THEN [c EXCEPT !.state = "Completed", !.ext = r,
                   !.result = PyStr(execute_command_success(r))]
    ELSE IF r.kind = "completed"
    THEN [c EXCEPT !.state = "CommandFailed", !.ext = r,
                   !.result = PyStr(CalledProcessError_handler(r))]
    ELSE IF r.kind = "FileNotFoundError"
    THEN [c EXCEPT !.state = "CommandNotFound", !.ext = r,
                   !.result = PyStr(NotFoundMsg(c.arg.val))]
    ELSE [c EXCEPT !.state = "Raised", !.ext = r]

(* ------------------------------ call log ------------------------------- *)

Active(c) == c.state \in {"Calling", "GotResponse", "Running"}
Last == calls[Len(calls)]
Busy == Len(calls) > 0 /\ Active(Last)
SetLast(c) == [calls EXCEPT ![Len(calls)] = c]

(* ------------------------------- Init ---------------------------------- *)

Init ==
    /\ mode \in {"main", "module"}
    /\ pc = IF mode = "main" THEN "configure_api" ELSE "imported"
    /\ apiKey \in ApiKeys
    /\ configured = FALSE
    /\ model = FALSE
    /\ calls = <<>>
    /\ response_text = Unset
    /\ command_output = Unset
    /\ exitCode = -1

(* ---------------------- steps inside ask_gemini ------------------------ *)

\* line 61: the client call returns a response or raises
generate_content ==
    /\ Busy /\ Last.state = "Calling"
    /\ \E o \in ClientOutcomes :
          calls' = SetLast(IF o.kind = "raised"
                           THEN ask_gemini_except([Last EXCEPT !.ext = o])
                           ELSE [Last EXCEPT !.ext = o,
                                             !.state = "GotResponse"])
    /\ UNCHANGED <<mode, pc, apiKey, configured, model, response_text,
                   command_output, exitCode>>

\* line 63
response_text_access ==
    /\ Busy /\ Last.state = "GotResponse"
    /\ calls' = SetLast(ask_gemini_text(Last))
    /\ UNCHANGED <<mode, pc, apiKey, configured, model, response_text,
                   command_output, exitCode>>

(* -------------------- steps inside execute_command --------------------- *)

\* lines 86-108: subprocess.run ends (it may also never end: no timeout)
run_finishes ==
    /\ Busy /\ Last.state = "Running"
    /\ \E r \in subprocess_run(Last.arg.val, Last.host) :
          calls' = SetLast(execute_command_finish(Last, r))
    /\ UNCHANGED <<mode, pc, apiKey, configured, model, response_text,
                   command_output, exitCode>>

(* -------------------- the file imported as a module -------------------- *)

caller_ask_gemini ==
    /\ pc = "imported" /\ ~Busy /\ Len(calls) < MaxCalls
    /\ \E q \in Queries : calls' = Append(calls, ask_gemini_enter(q))
    /\ UNCHANGED <<mode, pc, apiKey, configured, model, response_text,
                   command_output, exitCode>>

caller_execute_command ==
    /\ pc = "imported" /\ ~Busy /\ Len(calls) < MaxCalls
    /\ \E c \in Commands, h \in Hosts :
          calls' = Append(calls, execute_command_enter(c, h))
    /\ UNCHANGED <<mode, pc, apiKey, configured, model, response_text,
                   command_output, exitCode>>

(* ------------------------- the __main__ driver ------------------------- *)

\* lines 7-33; genai.configure may raise, which the second handler catches
configure_api ==
    /\ pc = "configure_api"
    /\ \E configureRaises \in BOOLEAN :
          IF Falsy(apiKey) \/ configureRaises
          THEN /\ pc' = "exited"
               /\ exitCode' = 1
               /\ UNCHANGED configured
          ELSE /\ pc' = "get_gemini_model"
               /\ configured' = TRUE
               /\ UNCHANGED exitCode
    /\ UNCHANGED <<mode, apiKey, model, calls, response_text, command_output>>

\* lines 35-42, 117
get_gemini_model ==
    /\ pc = "get_gemini_model"
    /\ model' = TRUE
    /\ pc' = "test1"
    /\ UNCHANGED <<mode, apiKey, configured, calls, response_text,
                   command_output, exitCode>>

\* lines 122-123: the call
main_test1 ==
    /\ pc = "test1"
    /\ calls' = Append(calls, ask_gemini_enter(PyStr(test_query)))
    /\ pc' = "test1_wait"
    /\ UNCHANGED <<mode, apiKey, configured, model, response_text,
                   command_output, exitCode>>

\* lines 123-127: the call has returned
main_test1_returned ==
    /\ pc = "test1_wait" /\ ~Busy /\ Last.state = "Returned"
    /\ response_text' = Last.result
    /\ pc' = "test2"
    /\ UNCHANGED <<mode, apiKey, configured, model, calls, command_output,
                   exitCode>>

\* lines 134-137: the call
main_test2_AskAgain ==
    /\ pc = "test2"
    /\ calls' = Append(calls, ask_gemini_enter(PyStr(test_query)))
    /\ pc' = "test2_wait"
    /\ UNCHANGED <<mode, apiKey, configured, model, response_text,
                   command_output, exitCode>>
main_test2 ==
    /\ pc = "test2"
    /\ \E h \in Hosts :
          calls' = Append(calls, execute_command_enter(test_command, h))
    /\ pc' = "test2_wait"
    /\ UNCHANGED <<mode, apiKey, configured, model, response_text,
                   command_output, exitCode>>

\* lines 137-143: the call has returned and the script runs off its end
main_test2_returned ==
    /\ pc = "test2_wait" /\ ~Busy /\ Last.state # "Raised"
    /\ command_output' = Last.result
    /\ pc' = "exited"
    /\ exitCode' = 0
    /\ UNCHANGED <<mode, apiKey, configured, model, calls, response_text>>

\* an exception that leaves a call ends the interpreter with status 1
main_uncaught ==
    /\ pc \in {"test1_wait", "test2_wait"} /\ ~Busy /\ Last.state = "Raised"
    /\ pc' = "exited"
    /\ exitCode' = 1
    /\ UNCHANGED <<mode, apiKey, configured, model, calls, response_text,
                   command_output>>

Next ==
    \/ generate_content
    \/ response_text_access
    \/ run_finishes
    \/ caller_ask_gemini
    \/ caller_execute_command
    \/ configure_api
    \/ get_gemini_model
    \/ main_test1
    \/ main_test1_returned
    \/ main_test2
    \/ main_test2_returned
    \/ main_uncaught

Spec == Init /\ [][Next]_vars

(* ------------------------------ properties ----------------------------- *)

Ended(c) == c.state \notin {"Calling", "GotResponse", "Running"}
AskCalls == {i \in DOMAIN calls : calls[i].fn = "ask_gemini"}
ExecCalls == {i \in DOMAIN calls : calls[i].fn = "execute_command"}
NonEmptyQuery(c) == c.arg.tag = "str" /\ c.arg.val # ""

\* C1: whatever the client call or the child process does, a call of
\* ask_gemini or execute_command that has ended has handed a string to its
\* caller and has not let an error escape.
C1_AlwaysReturnsString ==
    \A i \in DOMAIN calls :
        Ended(calls[i]) =>
            /\ calls[i].state # "Raised"
            /\ calls[i].result.tag = "str"

\* C2: for an empty string or None as the query, ask_gemini returns
\* "Error: No query provided." and generate_content is invoked zero times.
C2_EmptyQueryRejected ==
    \A i \in AskCalls :
        calls[i].arg \in {PyNone, PyStr("")} =>
            /\ calls[i].state = "Returned"
            /\ calls[i].result = PyStr("Error: No query provided.")
            /\ calls[i].gen = 0

C2_Witness ==
    /\ \E i \in AskCalls : calls[i].arg = PyNone /\ calls[i].state = "Returned"
    /\ \E i \in AskCalls : calls[i].arg = PyStr("") /\ calls[i].state = "Returned"

\* C3: for a non-empty query, when the client raises in generate_content or
\* when the response's text accessor raises, ask_gemini returns exactly
\* "Sorry, I couldn't get a response from the API." and does not raise.
C3_ClientRaisesGivesFallback ==
    \A i \in AskCalls :
        (/\ NonEmptyQuery(calls[i])
         /\ Ended(calls[i])
         /\ \/ calls[i].ext.kind = "raised"
            \/ calls[i].ext.kind = "response" /\ ~calls[i].ext.textOk) =>
            /\ calls[i].state = "Returned"
            /\ calls[i].result =
                   PyStr("Sorry, I couldn't get a response from the API.")

C3_Witness ==
    /\ \E i \in AskCalls : Ended(calls[i]) /\ calls[i].ext.kind = "raised"
    /\ \E i \in AskCalls :
          /\ Ended(calls[i])
          /\ calls[i].ext.kind = "response" /\ ~calls[i].ext.textOk

\* C4: when the child process exits with a non-zero status, execute_command
\* returns the captured stderr text, whatever stdout holds and also when
\* stderr is empty.
C4_NonZeroExitReturnsStderr ==
    \A i \in ExecCalls :
        (/\ Ended(calls[i])
         /\ calls[i].ext.kind = "completed"
         /\ calls[i].ext.rc # 0) =>
            calls[i].result = PyStr(calls[i].ext.stderr)

C4_Witness ==
    \E i \in ExecCalls :
        /\ Ended(calls[i])
        /\ calls[i].ext.kind = "completed" /\ calls[i].ext.rc # 0
        /\ calls[i].ext.stderr = "" /\ calls[i].ext.stdout # ""
        /\ calls[i].result = PyStr("")

\* C5: when the command names a program that does not exist, a call of
\* execute_command that returns gives the not-found message with the
\* command text in it, and never the stderr of a failed command.
C5_MissingProgramGivesNotFound ==
    \A i \in ExecCalls :
        (/\ Ended(calls[i])
         /\ calls[i].state # "Raised"
         /\ ~calls[i].host.found) =>
            calls[i].result =
                PyStr("Error: The command '" \o calls[i].arg.val
                      \o "' was not found on your system.")

\* C6: when the child process exits with status zero, execute_command
\* returns the captured stdout if it is non-empty and otherwise
\* "Command executed successfully (no output).", whatever stderr holds.
C6_ZeroExitReturnsStdoutOrSentinel ==
    \A i \in ExecCalls :
        (/\ Ended(calls[i])
         /\ calls[i].ext.kind = "completed"
         /\ calls[i].ext.rc = 0) =>
            calls[i].result =
                IF calls[i].ext.stdout # ""
                THEN PyStr(calls[i].ext.stdout)
                ELSE PyStr("Command executed successfully (no output).")

C6_Witness ==
    /\ \E i \in ExecCalls :
          /\ Ended(calls[i])
          /\ calls[i].ext.kind = "completed" /\ calls[i].ext.rc = 0
          /\ calls[i].ext.stdout = "" /\ calls[i].ext.stderr # ""
    /\ \E i \in ExecCalls :
          /\ Ended(calls[i])
          /\ calls[i].ext.kind = "completed" /\ calls[i].ext.rc = 0
          /\ calls[i].ext.stdout # "" /\ calls[i].ext.stderr # ""

\* C7: for a non-empty query, when generate_content returns a response
\* that has a text, ask_gemini returns that text unchanged, also when the
\* text is empty or has surrounding blanks.
C7_ResponseTextVerbatim ==
    \A i \in AskCalls :
        (/\ NonEmptyQuery(calls[i])
         /\ Ended(calls[i])
         /\ calls[i].ext.kind = "response"
         /\ calls[i].ext.textOk) =>
            /\ calls[i].state = "Returned"
            /\ calls[i].result = PyStr(calls[i].ext.text)

C7_Witness ==
    /\ \E i \in AskCalls :
          /\ Ended(calls[i]) /\ calls[i].ext.kind = "response"
          /\ calls[i].ext.textOk /\ calls[i].ext.text = ""
    /\ \E i \in AskCalls :
          /\ Ended(calls[i]) /\ calls[i].ext.kind = "response"
          /\ calls[i].ext.textOk /\ calls[i].ext.text \notin {"", FallbackMsg}

CredentialMissing == apiKey \in {PyNone, PyStr("")}

\* C8: a run of the script ends with exit code 1 when the credential is
\* missing, before the model is constructed and before either function is
\* called; a run with the credential present ends with exit code 0.
C8_ExitCodeFollowsCredential ==
    (mode = "main" /\ pc = "exited") =>
        /\ CredentialMissing =>
              exitCode = 1 /\ ~model /\ calls = <<>>
        /\ ~CredentialMissing => exitCode = 0

\* C9: in a run of the script in which configuration succeeds, ask_gemini
\* is called once and then execute_command is called once, the second only
\* after the first has returned, whether it returned an answer or the
\* fallback string.
C9_AskThenExecuteOnce ==
    mode = "main" =>
        /\ Cardinality(AskCalls) <= 1
        /\ Cardinality(ExecCalls) <= 1
        /\ Len(calls) >= 1 => calls[1].fn = "ask_gemini"
        /\ Len(calls) >= 2 =>
              /\ calls[2].fn = "execute_command"
              /\ calls[1].state = "Returned"
        /\ (pc = "exited" /\ configured) =>
              Cardinality(AskCalls) = 1 /\ Cardinality(ExecCalls) = 1

C9_Witness ==
    /\ mode = "main" /\ pc = "exited" /\ configured
    /\ Len(calls) = 2
    /\ calls[1].result = PyStr(FallbackMsg)
    /\ calls[1].ext.kind = "raised"
    /\ calls[2].fn = "execute_command"
    /\ Ended(calls[2])

\* C10: a call of execute_command goes from Running to exactly one of
\* Completed, CommandFailed or CommandNotFound, and a call that has ended
\* has returned exactly one result.
C10_EndsInOneTerminalOutcome ==
    \A i \in ExecCalls :
        /\ calls[i].state \in
              {"Running", "Completed", "CommandFailed", "CommandNotFound"}
        /\ calls[i].state # "Running" => calls[i].result.tag = "str"

====
